---- MODULE Spec2Model ----
(***************************************************************************)
(* Model of the API test helpers of the e-commerce test suite:             *)
(*   APITestHelpers.batchRequests  (concurrency-bounded batch dispatcher)  *)
(*   APITestHelpers.retryRequest   (retry executor, exponential backoff)   *)
(*   APITestHelpers.pollUntil      (poller with wall-clock deadline)       *)
(* Each helper is an async function; it is modelled as a state machine     *)
(* whose steps are the stretches of code between two awaits.  Each helper  *)
(* has a specification of its own (SpecBatch, SpecRetry, SpecPoll); the    *)
(* variables of the other helpers stay at their idle values.               *)
(*   APIInterceptor         (request/response log, SpecInterceptor)        *)
(*   APIResponseValidator   (schema cache, idempotency, SpecValidator)     *)
(*   apiTestWithLogging     (the logging fixture, SpecFixture)             *)
(*   APITestHelpers.measureResponseTime  (timer around one request)        *)
(* SpecLoops runs retryRequest and pollUntil side by side, SpecDurations   *)
(* the interceptor and measureResponseTime.                                *)
(***************************************************************************)
EXTENDS Integers, Sequences, FiniteSets, TLC

VARIABLES
    \* ---- batchRequests ----
    numRequests,   \* requests.length
    concurrency,   \* the concurrency argument
    fate,          \* fate[i]: whether request i will fulfil ("ok") or reject ("fail")
    opState,       \* opState[i]: "pending" (not called), "running", "fulfilled", "rejected"
    executing,     \* the executing array: indices of the promises it holds
    results,       \* the results array: indices of the requests whose result was pushed
    idx,           \* position of the for..of loop (1-based index of `request`)
    bpc,           \* "idle", "loop", "race" (await Promise.race), "all" (await Promise.all), "done"
    awaited,       \* the promise that settles the pending race/all (0: none yet)
    batchOutcome,  \* how the promise returned by batchRequests settled
    \* ---- retryRequest ----
    maxRetries, retryDelay, retryOn,
    attempt,       \* the loop variable
    rpc,           \* "idle", "call" (about to await requestFn), "sleep" (awaiting sleep), "done"
    lastError,     \* the lastError local
    response,      \* the response local
    calls,         \* outcome of every invocation of requestFn so far, in order
    waits,         \* argument of every sleep so far, in order
    retryOutcome,  \* how the promise returned by retryRequest settled
    \* ---- pollUntil ----
    timeout, interval, errorMessage,
    now,           \* Date.now() - startTime
    ppc,           \* "idle", "check" (loop condition), "sleep" (awaiting sleep), "done"
    polls,         \* one record per poll: when it started, how long it took, what conditionFn said
    pollOutcome,   \* how the promise returned by pollUntil settled
    \* ---- APIInterceptor ----
    enabled,       \* the enabled field
    logs,          \* the logs array; each entry keeps an identity (eid) besides its fields
    startTimes,    \* the startTimes map: requestId -> timestamp
    clock,         \* Date.now()
    nextId,        \* number of the next requestId / log entry to be created
    pending,       \* the logResponse call suspended at `await response.json()/text()`
                   \* (the model follows one suspended call at a time)
    lastCall,      \* the latest logRequest call and the requestId it returned (0: ''),
                   \* or the exception that escaped a logResponse call
    everEnabled,   \* whether enable() was ever called on this instance
    issued,        \* whether the test has sent a request through the apiContext fixture
    icpc,          \* "idle", "setup" (fixture not yet set up), "live", "done"
    \* ---- APIResponseValidator ----
    validators,    \* the validators map: cache key -> the schema that was compiled
    compiled,      \* every ajv.compile call so far: <<key, schema>>, in order
    vcalls,        \* number of validator calls made
    lastValidation,\* the latest validateSchema / validateIdempotency call and its outcome
    vpc,           \* "idle" or "live"
    \* ---- measureResponseTime ----
    mpc,           \* "idle", "start", "await" (awaiting requestFn()), "done"
    mnow,          \* Date.now()
    mstart,        \* the startTime local
    measured       \* how the promise returned by measureResponseTime settled

batchVars == <<numRequests, concurrency, fate, opState, executing, results, idx, bpc,
               awaited, batchOutcome>>
retryVars == <<maxRetries, retryDelay, retryOn, attempt, rpc, lastError, response, calls,
               waits, retryOutcome>>
pollVars  == <<timeout, interval, errorMessage, now, ppc, polls, pollOutcome>>
interceptorVars == <<enabled, logs, startTimes, clock, nextId, pending, lastCall,
                     everEnabled, issued, icpc>>
validatorVars == <<validators, compiled, vcalls, lastValidation, vpc>>
measureVars == <<mpc, mnow, mstart, measured>>
vars == <<batchVars, retryVars, pollVars, interceptorVars, validatorVars, measureVars>>

\* ------------------------------------------------------------------ bounds
MaxOps == 4          \* requests.length ranges over 0..MaxOps
MaxConc == 3         \* concurrency ranges over 1..MaxConc
MaxRetriesBound == 3 \* maxRetries ranges over 0..MaxRetriesBound
MaxDelay == 2        \* retryDelay ranges over 1..MaxDelay
MaxTimeout == 4      \* timeout ranges over 0..MaxTimeout
MaxInterval == 2     \* interval ranges over 1..MaxInterval
MaxDur == 3          \* one poll (requestFn plus conditionFn) lasts 0..MaxDur
MaxRequests == 2     \* logRequest is called at most MaxRequests times
MaxClock == 2        \* Date.now() ranges over 1..MaxClock
MaxValidations == 3  \* at most MaxValidations validator calls

\* ------------------------------------------------------- idle states
NoOutcome == [kind |-> "none", id |-> 0, len |-> 0, message |-> ""]

BatchIdle ==
    /\ numRequests = 0 /\ concurrency = 1 /\ fate = <<>> /\ opState = <<>>
    /\ executing = <<>> /\ results = <<>> /\ idx = 1 /\ bpc = "idle"
    /\ awaited = 0 /\ batchOutcome = NoOutcome

NoError == [kind |-> "null", id |-> 0, status |-> 0]
NoResponse == [kind |-> "null", id |-> 0, status |-> 0]
NoRetryOutcome == [kind |-> "none", id |-> 0, status |-> 0]
NoPollOutcome == [kind |-> "none", id |-> 0, message |-> ""]
Undefined == [supplied |-> FALSE, text |-> ""]

RetryIdle ==
    /\ maxRetries = 0 /\ retryDelay = 0 /\ retryOn = {} /\ attempt = 0 /\ rpc = "idle"
    /\ lastError = NoError /\ response = NoResponse /\ calls = <<>> /\ waits = <<>>
    /\ retryOutcome = NoRetryOutcome

PollIdle ==
    /\ timeout = 0 /\ interval = 0 /\ errorMessage = Undefined /\ now = 0 /\ ppc = "idle"
    /\ polls = <<>> /\ pollOutcome = NoPollOutcome

NoCall == [op |-> "none", token |-> 0]
NoResponseLog == [status |-> 0, body |-> "none", duration |-> 0]
NoSchema == [a |-> "", b |-> ""]
NoBody == [a |-> "", b |-> ""]
NoAPIResponse == [status |-> 0, raw |-> ""]
NoValidation ==
    [op |-> "none", kind |-> "none", name |-> Undefined, schema |-> NoSchema, key |-> "",
     used |-> NoSchema, r1 |-> NoAPIResponse, r2 |-> NoAPIResponse, body |-> NoBody,
     errors |-> {}]

InterceptorIdle ==
    /\ enabled = FALSE /\ logs = <<>> /\ startTimes = <<>> /\ clock = 1 /\ nextId = 1
    /\ pending = {} /\ lastCall = NoCall /\ everEnabled = FALSE /\ issued = FALSE
    /\ icpc = "idle"

NoMeasurement == [kind |-> "none", duration |-> 0]
MeasureIdle == mpc = "idle" /\ mnow = 0 /\ mstart = 0 /\ measured = NoMeasurement

ValidatorIdle ==
    /\ validators = <<>> /\ compiled = <<>> /\ vcalls = 0
    /\ lastValidation = NoValidation /\ vpc = "idle"

\* =================================================================
\* batchRequests
\* =================================================================

\* executing.findIndex(p => p === promise): 1-based position, 0 for "not found"
FindIndex(arr, p) ==
    IF \E k \in 1..Len(arr) : arr[k] = p
    THEN CHOOSE k \in 1..Len(arr) : arr[k] = p /\ \A j \in 1..(k-1) : arr[j] # p
    ELSE 0

\* arr.splice(k, 1) for a 1-based k; splice(-1, 1) (k = 0) removes the last element
Splice1(arr, k) ==
    LET at == IF k = 0 THEN Len(arr) ELSE k
    IN  [j \in 1..(Len(arr) - 1) |-> IF j < at THEN arr[j] ELSE arr[j + 1]]

\* The first promise of arr, in array order, that is already settled (0: none).
\* Promise.race and Promise.all subscribe to their inputs in array order, so among
\* inputs already settled the first in the array reacts first.
FirstWhere(arr, st, want) ==
    IF \E k \in 1..Len(arr) : st[arr[k]] \in want
    THEN arr[CHOOSE k \in 1..Len(arr) :
                /\ st[arr[k]] \in want
                /\ \A j \in 1..(k-1) : st[arr[j]] \notin want]
    ELSE 0

InArray(arr, p) == \E k \in 1..Len(arr) : arr[k] = p

\* if (executing.length >= concurrency)
ExecutingFullStrict(len, c) == len > c
ExecutingFull(len, c) == len >= c

BatchInit ==
    /\ RetryIdle /\ PollIdle /\ InterceptorIdle /\ ValidatorIdle /\ MeasureIdle
    /\ numRequests \in 0..MaxOps
    /\ concurrency \in 1..MaxConc
    /\ fate \in [1..numRequests -> {"ok", "fail"}]
    /\ opState = [i \in 1..numRequests |-> "pending"]
    /\ executing = <<>>
    /\ results = <<>>
    /\ idx = 1
    /\ bpc = "loop"
    /\ awaited = 0
    /\ batchOutcome = NoOutcome

\* One iteration of the for..of loop up to its await: call request(), chain the
\* .then that pushes the result, push the promise, and, when executing is full,
\* start awaiting Promise.race(executing).
BatchStart ==
    /\ bpc = "loop"
    /\ idx <= numRequests
    /\ opState' = [opState EXCEPT ![idx] = "running"]
    /\ executing' = Append(executing, idx)
    /\ IF ExecutingFull(Len(executing'), concurrency)
       THEN /\ bpc' = "race"
            /\ awaited' = FirstWhere(executing', opState', {"fulfilled", "rejected"})
            /\ idx' = idx
       ELSE /\ bpc' = "loop"
            /\ awaited' = 0
            /\ idx' = idx + 1
    /\ UNCHANGED <<numRequests, concurrency, fate, results, batchOutcome>>
    /\ UNCHANGED <<retryVars, pollVars, interceptorVars, validatorVars, measureVars>>

\* The loop is over: await Promise.all(executing).
BatchLoopEnd ==
    /\ bpc = "loop"
    /\ idx > numRequests
    /\ bpc' = "all"
    /\ awaited' = FirstWhere(executing, opState, {"rejected"})
    /\ UNCHANGED <<numRequests, concurrency, fate, opState, executing, results, idx,
                   batchOutcome>>
    /\ UNCHANGED <<retryVars, pollVars, interceptorVars, validatorVars, measureVars>>

\* Request i settles while batchRequests is suspended (JavaScript runs the loop to
\* its next await before any completion is delivered).  On fulfilment the .then
\* callback pushes the result; on rejection the chained promise rejects.
OpSettle(i) ==
    /\ bpc \in {"race", "all", "done"}
    /\ opState[i] = "running"
    /\ opState' = [opState EXCEPT ![i] = IF fate[i] = "ok" THEN "fulfilled" ELSE "rejected"]
    /\ results' = IF fate[i] = "ok" THEN Append(results, i) ELSE results
    /\ awaited' = IF /\ awaited = 0
                     /\ InArray(executing, i)
                     /\ \/ bpc = "race"
                        \/ bpc = "all" /\ fate[i] = "fail"
                  THEN i ELSE awaited
    /\ UNCHANGED <<numRequests, concurrency, fate, executing, idx, bpc, batchOutcome>>
    /\ UNCHANGED <<retryVars, pollVars, interceptorVars, validatorVars, measureVars>>

\* Promise.race(executing) has settled.  A rejection propagates out of
\* batchRequests; otherwise the promise of THIS iteration is spliced out of
\* executing and the loop goes on.
RaceResume ==
    /\ bpc = "race"
    /\ awaited # 0
    /\ IF opState[awaited] = "rejected"
       THEN /\ bpc' = "done"
            /\ batchOutcome' = [kind |-> "rejected", id |-> awaited, len |-> 0, message |-> ""]
            /\ UNCHANGED <<executing, idx>>
       ELSE /\ executing' = Splice1(executing, FindIndex(executing, idx))
            /\ idx' = idx + 1
            /\ bpc' = "loop"
            /\ UNCHANGED batchOutcome
    /\ awaited' = 0
    /\ UNCHANGED <<numRequests, concurrency, fate, opState, results>>
    /\ UNCHANGED <<retryVars, pollVars, interceptorVars, validatorVars, measureVars>>

\* Promise.all(executing) has settled: rejected by the first rejection among the
\* promises still in executing, or fulfilled once all of them are; then
\* `return results`.
AllResume ==
    /\ bpc = "all"
    /\ IF awaited # 0
       THEN batchOutcome' = [kind |-> "rejected", id |-> awaited, len |-> 0, message |-> ""]
       ELSE /\ \A k \in 1..Len(executing) : opState[executing[k]] = "fulfilled"
            /\ batchOutcome' = [kind |-> "resolved", id |-> 0, len |-> Len(results),
                                message |-> ""]
    /\ bpc' = "done"
    /\ UNCHANGED <<numRequests, concurrency, fate, opState, executing, results, idx, awaited>>
    /\ UNCHANGED <<retryVars, pollVars, interceptorVars, validatorVars, measureVars>>

BatchNext ==
    \/ BatchStart
    \/ BatchLoopEnd
    \/ \E i \in 1..numRequests : OpSettle(i)
    \/ RaceResume
    \/ AllResume

SpecBatch == BatchInit /\ [][BatchNext]_vars

\* =================================================================
\* retryRequest
\* =================================================================

Statuses == {200, 404, 500, 503}
RetryOnChoices == { {}, {503}, {500, 502, 503, 504} }

\* What the n-th invocation of requestFn may do: resolve with a response (some
\* status) or throw an Error.  id tells the invocations' results apart.
CallOutcomes(n) ==
    [kind : {"response"}, id : {n}, status : Statuses]
        \cup { [kind |-> "error", id |-> n, status |-> 0] }

RECURSIVE Pow(_, _)
\* Math.pow(b, e) for a natural e
Pow(b, e) == IF e = 0 THEN 1 ELSE b * Pow(b, e - 1)

\* retryDelay * Math.pow(2, attempt)
BackoffOffByOne(delay, att) == delay * Pow(2, att + 1)
Backoff(delay, att) == delay * Pow(2, att)

\* the for loop's condition: attempt <= maxRetries
LoopContinuesOneMore(att, maxR) == att <= maxR + 1
LoopContinues(att, maxR) == att <= maxR

\* retryOn.includes(response.status()) && attempt < maxRetries
ShouldRetryAnyStatus(status, att, maxR, on) == att < maxR
ShouldRetryInclusive(status, att, maxR, on) == status \in on /\ att <= maxR
ShouldRetry(status, att, maxR, on) == status \in on /\ att < maxR

\* lastError = error as Error
RecordErrorKeepFirst(prev, err) == IF prev = NoError THEN err ELSE prev
RecordError(prev, err) == err

\* throw lastError || new Error('Request failed after retries')
Surfaced(err) ==
    IF err = NoError
    THEN [kind |-> "throw", id |-> 0, status |-> 0]
    ELSE [kind |-> "throw", id |-> err.id, status |-> 0]

RetryInit ==
    /\ BatchIdle /\ PollIdle /\ InterceptorIdle /\ ValidatorIdle /\ MeasureIdle
    /\ maxRetries \in 0..MaxRetriesBound
    /\ retryDelay \in 1..MaxDelay
    /\ retryOn \in RetryOnChoices
    /\ attempt = 0
    /\ rpc = "call"
    /\ lastError = NoError
    /\ response = NoResponse
    /\ calls = <<>>
    /\ waits = <<>>
    /\ retryOutcome = NoRetryOutcome

\* attempt++ and the loop condition; when the loop is over, the throw after it
RetryAdvance(err) ==
    /\ attempt' = attempt + 1
    /\ IF LoopContinues(attempt + 1, maxRetries)
       THEN rpc' = "call" /\ UNCHANGED retryOutcome
       ELSE rpc' = "done" /\ retryOutcome' = Surfaced(err)

\* One iteration up to its next await: requestFn() settles with o, then either
\* return, or sleep (backoff), or fall through to the next iteration.
RetryCall(o) ==
    /\ rpc = "call"
    /\ calls' = Append(calls, o)
    /\ IF o.kind = "response"
       THEN /\ response' = o
            /\ UNCHANGED lastError
            /\ IF ShouldRetry(o.status, attempt, maxRetries, retryOn)
               THEN /\ waits' = Append(waits, Backoff(retryDelay, attempt))
                    /\ rpc' = "sleep"
                    /\ UNCHANGED <<attempt, retryOutcome>>
               ELSE /\ rpc' = "done"
                    /\ retryOutcome' = [kind |-> "return", id |-> o.id, status |-> o.status]
                    /\ UNCHANGED <<attempt, waits>>
       ELSE /\ lastError' = RecordError(lastError, o)
            /\ UNCHANGED response
            /\ IF attempt < maxRetries
               THEN /\ waits' = Append(waits, Backoff(retryDelay, attempt))
                    /\ rpc' = "sleep"
                    /\ UNCHANGED <<attempt, retryOutcome>>
               ELSE /\ RetryAdvance(lastError')
                    /\ UNCHANGED waits
    /\ UNCHANGED <<maxRetries, retryDelay, retryOn>>
    /\ UNCHANGED <<batchVars, pollVars, interceptorVars, validatorVars, measureVars>>

\* The backoff sleep is over: `continue` (status branch) or the end of the catch
\* block (error branch); both go to attempt++ and the loop condition.
RetryWake ==
    /\ rpc = "sleep"
    /\ RetryAdvance(lastError)
    /\ UNCHANGED <<maxRetries, retryDelay, retryOn, lastError, response, calls, waits>>
    /\ UNCHANGED <<batchVars, pollVars, interceptorVars, validatorVars, measureVars>>

RetryNext ==
    \/ \E o \in CallOutcomes(Len(calls) + 1) : RetryCall(o)
    \/ RetryWake

SpecRetry == RetryInit /\ [][RetryNext]_vars

\* =================================================================
\* pollUntil
\* =================================================================

ErrorMessages ==
    { Undefined,
      [supplied |-> TRUE, text |-> ""],
      [supplied |-> TRUE, text |-> "order still pending"] }

\* `Polling timeout after ${timeout}ms`
DefaultMessage(t) == "Polling timeout after " \o ToString(t) \o "ms"

\* options.errorMessage || `Polling timeout after ${timeout}ms`
\* (|| takes the right side for undefined and for the empty string)
TimeoutMessageNullish(msg, t) == IF msg.supplied THEN msg.text ELSE DefaultMessage(t)
TimeoutMessage(msg, t) ==
    IF msg.supplied /\ msg.text # "" THEN msg.text ELSE DefaultMessage(t)

\* the while condition: Date.now() - startTime < timeout
DeadlineOpenInclusive(elapsed, t) == elapsed <= t
DeadlineOpen(elapsed, t) == elapsed < t

\* if (conditionMet) return response
ReturnsOnAlways(conditionMet) == TRUE
ReturnsOn(conditionMet) == conditionMet

\* which of the two awaited calls of a poll throws (or rejects)
PollThrowers == {"requestFn", "conditionFn"}
\* the message of the error it throws
ThrownMessage(who) == who \o " failed"

\* The loop body has no try/catch: no error of a poll is caught.
PollCatchesRequestErrors(who) == who = "requestFn"
PollCatches(who) == FALSE

\* the while condition evaluated before the first poll as before every other
DeadlineOpenAfterFirst(elapsed, t, n) == n = 0 \/ elapsed < t
DeadlineChecked(elapsed, t, n) == DeadlineOpen(elapsed, t)

PollInit ==
    /\ BatchIdle /\ RetryIdle /\ InterceptorIdle /\ ValidatorIdle /\ MeasureIdle
    /\ timeout \in 0..MaxTimeout
    /\ interval \in 1..MaxInterval
    /\ errorMessage \in ErrorMessages
    /\ now = 0
    /\ ppc = "check"
    /\ polls = <<>>
    /\ pollOutcome = NoPollOutcome

\* The deadline is still open: one poll.  requestFn and conditionFn together
\* take d ms and conditionFn says c; then return, or sleep(interval).
PollInvoke(d, c) ==
    /\ ppc = "check"
    /\ DeadlineChecked(now, timeout, Len(polls))
    /\ polls' = Append(polls, [start |-> now, dur |-> d, cond |-> c, threw |-> "none"])
    /\ now' = now + d
    /\ IF ReturnsOn(c)
       THEN /\ ppc' = "done"
            /\ pollOutcome' = [kind |-> "return", id |-> Len(polls'), message |-> ""]
       ELSE /\ ppc' = "sleep"
            /\ UNCHANGED pollOutcome
    /\ UNCHANGED <<timeout, interval, errorMessage>>
    /\ UNCHANGED <<batchVars, retryVars, interceptorVars, validatorVars, measureVars>>

\* The deadline is still open: one poll in which requestFn or conditionFn
\* throws after d ms.  The error leaves the loop and rejects pollUntil.
PollThrow(d, who) ==
    /\ ppc = "check"
    /\ DeadlineChecked(now, timeout, Len(polls))
    /\ polls' = Append(polls, [start |-> now, dur |-> d, cond |-> FALSE, threw |-> who])
    /\ now' = now + d
    /\ IF PollCatches(who)
       THEN /\ ppc' = "sleep"
            /\ UNCHANGED pollOutcome
       ELSE /\ ppc' = "done"
            /\ pollOutcome' = [kind |-> "throw", id |-> Len(polls'),
                               message |-> ThrownMessage(who)]
    /\ UNCHANGED <<timeout, interval, errorMessage>>
    /\ UNCHANGED <<batchVars, retryVars, interceptorVars, validatorVars, measureVars>>

\* The deadline has passed: the throw after the loop.
PollTimeout ==
    /\ ppc = "check"
    /\ ~DeadlineChecked(now, timeout, Len(polls))
    /\ ppc' = "done"
    /\ pollOutcome' = [kind |-> "timeout", id |-> 0,
                       message |-> TimeoutMessage(errorMessage, timeout)]
    /\ UNCHANGED <<timeout, interval, errorMessage, now, polls>>
    /\ UNCHANGED <<batchVars, retryVars, interceptorVars, validatorVars, measureVars>>

\* sleep(interval) is over: back to the loop condition.
PollWake ==
    /\ ppc = "sleep"
    /\ now' = now + interval
    /\ ppc' = "check"
    /\ UNCHANGED <<timeout, interval, errorMessage, polls, pollOutcome>>
    /\ UNCHANGED <<batchVars, retryVars, interceptorVars, validatorVars, measureVars>>

PollNext ==
    \/ \E d \in 0..MaxDur, c \in BOOLEAN : PollInvoke(d, c)
    \/ \E d \in 0..MaxDur, who \in PollThrowers : PollThrow(d, who)
    \/ PollTimeout
    \/ PollWake

SpecPoll == PollInit /\ [][PollNext]_vars

\* =================================================================
\* measureResponseTime
\* =================================================================

\* Date.now() - startTime
ElapsedReversed(end, start) == start - end
Elapsed(end, start) == end - start

MeasureInit ==
    /\ BatchIdle /\ RetryIdle /\ PollIdle /\ InterceptorIdle /\ ValidatorIdle
    /\ mpc = "start"
    /\ mnow \in 1..MaxClock
    /\ mstart = 0
    /\ measured = NoMeasurement

MeasureFrame ==
    UNCHANGED <<batchVars, retryVars, pollVars, interceptorVars, validatorVars>>

\* startTime = Date.now(), then requestFn() is called and awaited
MeasureStart ==
    /\ mpc = "start"
    /\ mstart' = mnow
    /\ mpc' = "await"
    /\ UNCHANGED <<mnow, measured>>
    /\ MeasureFrame

\* requestFn() settles after d ms: the duration is taken and returned, or the
\* rejection is passed on
MeasureSettle(d, ok) ==
    /\ mpc = "await"
    /\ mnow' = mnow + d
    /\ mpc' = "done"
    /\ measured' = IF ok THEN [kind |-> "return", duration |-> Elapsed(mnow', mstart)]
                         ELSE [kind |-> "throw", duration |-> 0]
    /\ UNCHANGED mstart
    /\ MeasureFrame

MeasureNext ==
    \/ MeasureStart
    \/ \E d \in 0..MaxDur, ok \in BOOLEAN : MeasureSettle(d, ok)

\* =================================================================
\* the two loops (retryRequest, pollUntil) side by side
\* =================================================================

LoopsInit == RetryInit \/ PollInit
LoopsNext == RetryNext \/ PollNext
SpecLoops == LoopsInit /\ [][LoopsNext]_vars

\* =================================================================
\* APIInterceptor
\* =================================================================

ResponseStatuses == {200, 404}
\* An APIResponse handed to logResponse: its status, and whether decoding its
\* body (json() for a JSON content-type, text() otherwise) succeeds.
Responses == [status : ResponseStatuses, decodeOk : BOOLEAN]
ErrorTexts == {"ECONNRESET"}
Placeholder == "[Unable to parse response body]"
Thrown == "(exception)"

\* Map.set / Map.delete / Map.has on startTimes
MapSet(m, k, v) == [x \in (DOMAIN m) \cup {k} |-> IF x = k THEN v ELSE m[x]]
MapDelete(m, k) == [x \in (DOMAIN m) \ {k} |-> m[x]]
MapHas(m, k) == k \in DOMAIN m

\* this.logs.find(l => l.request.timestamp === startTime): position of the FIRST
\* entry with that timestamp, 0 for undefined
FindLog(ls, ts) ==
    IF \E k \in 1..Len(ls) : ls[k].timestamp = ts
    THEN CHOOSE k \in 1..Len(ls) :
            ls[k].timestamp = ts /\ \A j \in 1..(k-1) : ls[j].timestamp # ts
    ELSE 0

\* `if (!this.enabled) return ''` of logRequest: whether the call records anything
RequestCapturedAlways(en) == TRUE
RequestCaptured(en) == en

\* `if (!this.enabled) return` of logResponse and logError
CallIgnoredNever(en) == FALSE
CallIgnored(en) == ~en

\* the try/catch around the body decoding of logResponse
DecodedBodyNoCatch(resp) == IF resp.decodeOk THEN "decoded" ELSE Thrown
DecodedBody(resp) == IF resp.decodeOk THEN "decoded" ELSE Placeholder

\* The entry object held in `log` gets its response field assigned; the object
\* may no longer be in this.logs (clear() replaced the array).  Of a ResponseLog
\* the model keeps status, body and duration; statusText, headers and timestamp
\* are copied from the response and the clock the same way and read nowhere.
AssignResponse(ls, eid, r) ==
    [k \in 1..Len(ls) |-> IF ls[k].eid = eid THEN [ls[k] EXCEPT !.response = r] ELSE ls[k]]

InterceptorInit ==
    /\ BatchIdle /\ RetryIdle /\ PollIdle /\ ValidatorIdle /\ MeasureIdle
    /\ enabled = FALSE
    /\ logs = <<>>
    /\ startTimes = <<>>
    /\ clock = 1
    /\ nextId = 1
    /\ pending = {}
    /\ lastCall = NoCall
    /\ everEnabled = FALSE
    /\ issued = FALSE
    /\ icpc = "live"

InterceptorFrame ==
    UNCHANGED <<batchVars, retryVars, pollVars, validatorVars, measureVars, icpc>>

enable ==
    /\ icpc = "live"
    /\ enabled' = TRUE
    /\ everEnabled' = TRUE
    /\ UNCHANGED <<logs, startTimes, clock, nextId, pending, lastCall, issued>>
    /\ InterceptorFrame

disable ==
    /\ icpc = "live"
    /\ enabled' = FALSE
    /\ UNCHANGED <<logs, startTimes, clock, nextId, pending, lastCall, everEnabled, issued>>
    /\ InterceptorFrame

clear ==
    /\ icpc = "live"
    /\ logs' = <<>>
    /\ startTimes' = <<>>
    /\ UNCHANGED <<enabled, clock, nextId, pending, lastCall, everEnabled, issued>>
    /\ InterceptorFrame

\* time passes between two callbacks
Tick ==
    /\ icpc = "live"
    /\ clock < MaxClock
    /\ clock' = clock + 1
    /\ UNCHANGED <<enabled, logs, startTimes, nextId, pending, lastCall, everEnabled, issued>>
    /\ InterceptorFrame

logRequest ==
    /\ icpc = "live"
    /\ nextId <= MaxRequests
    /\ IF RequestCaptured(enabled)
       THEN /\ startTimes' = MapSet(startTimes, nextId, clock)
            /\ logs' = Append(logs, [eid |-> nextId, timestamp |-> clock,
                                     response |-> NoResponseLog, error |-> ""])
            /\ nextId' = nextId + 1
            /\ lastCall' = [op |-> "logRequest", token |-> nextId]
       ELSE /\ lastCall' = [op |-> "logRequest", token |-> 0]
            /\ UNCHANGED <<startTimes, logs, nextId>>
    /\ UNCHANGED <<enabled, clock, pending, everEnabled, issued>>
    /\ InterceptorFrame

\* logResponse up to its await: the guard, startTime, duration, the lookup.  With
\* no entry found nothing is awaited and the call ends at startTimes.delete.
logResponse(token, resp) ==
    /\ icpc = "live"
    /\ pending = {}
    /\ IF CallIgnored(enabled)
       THEN UNCHANGED <<startTimes, pending>>
       ELSE LET startTime == IF MapHas(startTimes, token) THEN startTimes[token] ELSE clock
                duration == Elapsed(clock, startTime)
                k == FindLog(logs, startTime)
            IN  IF k # 0
                THEN /\ pending' = pending \cup
                            {[token |-> token, eid |-> logs[k].eid,
                              duration |-> duration, resp |-> resp]}
                     /\ UNCHANGED startTimes
                ELSE /\ startTimes' = MapDelete(startTimes, token)
                     /\ UNCHANGED pending
    /\ UNCHANGED <<enabled, logs, clock, nextId, lastCall, everEnabled, issued>>
    /\ InterceptorFrame

\* logResponse after its await: the body (or the placeholder) is known, the
\* response record is assigned, the requestId is deleted from startTimes.
logResponseResume(p) ==
    /\ icpc = "live"
    /\ p \in pending
    /\ pending' = pending \ {p}
    /\ IF DecodedBody(p.resp) = Thrown
       THEN /\ lastCall' = [op |-> "logResponse threw", token |-> p.token]
            /\ UNCHANGED <<logs, startTimes>>
       ELSE /\ logs' = AssignResponse(logs, p.eid,
                          [status |-> p.resp.status, body |-> DecodedBody(p.resp),
                           duration |-> p.duration])
            /\ startTimes' = MapDelete(startTimes, p.token)
            /\ UNCHANGED lastCall
    /\ UNCHANGED <<enabled, clock, nextId, everEnabled, issued>>
    /\ InterceptorFrame

logError(token, msg) ==
    /\ icpc = "live"
    /\ IF CallIgnored(enabled)
       THEN UNCHANGED <<logs, startTimes>>
       ELSE LET k == IF MapHas(startTimes, token)
                     THEN FindLog(logs, startTimes[token]) ELSE 0
            IN  /\ logs' = IF k # 0 THEN [logs EXCEPT ![k].error = msg] ELSE logs
                /\ startTimes' = MapDelete(startTimes, token)
    /\ UNCHANGED <<enabled, clock, nextId, pending, lastCall, everEnabled, issued>>
    /\ InterceptorFrame

\* getLogs(): a copy of the array
getLogs == logs

\* `if (log.response)` / `else if (log.error)`: the field is set (and truthy)
HasResponse(log) == log.response # NoResponseLog
HasError(log) == log.error # ""

\* `status >= 200 && status < 400`
IsSuccessBelow500(status) == status >= 200 /\ status < 500
IsSuccess(status) == status >= 200 /\ status < 400

\* (stats.statusCodes[status] || 0) + 1
CountUp(codes, status) ==
    MapSet(codes, status, (IF MapHas(codes, status) THEN codes[status] ELSE 0) + 1)

\* The accumulator of getStatistics before the forEach.  slowestRequest and
\* fastestRequest hold the eid of the entry, 0 for null; fastestDuration starts
\* at Infinity (fastestSet = FALSE).  averageResponseTime is kept as the
\* quotient's two operands.
EmptyStats(ls) ==
    [totalRequests |-> Len(ls), successfulRequests |-> 0, failedRequests |-> 0,
     statusCodes |-> <<>>, totalDuration |-> 0,
     slowestDuration |-> 0, slowestRequest |-> 0,
     fastestSet |-> FALSE, fastestDuration |-> 0, fastestRequest |-> 0]

\* one iteration of this.logs.forEach
StatsStep(st, log) ==
    IF HasResponse(log)
    THEN LET status == log.response.status
             duration == log.response.duration
             slower == duration > st.slowestDuration
             faster == ~st.fastestSet \/ duration < st.fastestDuration
         IN  [st EXCEPT
                !.statusCodes = CountUp(st.statusCodes, status),
                !.successfulRequests = IF IsSuccess(status) THEN @ + 1 ELSE @,
                !.failedRequests = IF IsSuccess(status) THEN @ ELSE @ + 1,
                !.totalDuration = @ + duration,
                !.slowestDuration = IF slower THEN duration ELSE @,
                !.slowestRequest = IF slower THEN log.eid ELSE @,
                !.fastestSet = TRUE,
                !.fastestDuration = IF faster THEN duration ELSE @,
                !.fastestRequest = IF faster THEN log.eid ELSE @]
    ELSE IF HasError(log)
    THEN [st EXCEPT !.failedRequests = @ + 1]
    ELSE st

RECURSIVE StatsFold(_, _, _)
StatsFold(ls, k, st) ==
    IF k > Len(ls) THEN st ELSE StatsFold(ls, k + 1, StatsStep(st, ls[k]))

\* getStatistics(): the early return for an empty log, else the fold and the
\* average
getStatisticsOf(ls) ==
    LET st == StatsFold(ls, 1, EmptyStats(ls))
    IN  [totalRequests |-> st.totalRequests,
         successfulRequests |-> st.successfulRequests,
         failedRequests |-> st.failedRequests,
         averageResponseTime |-> [num |-> st.totalDuration,
                                  den |-> IF ls = <<>> THEN 1 ELSE Len(ls)],
         slowestRequest |-> st.slowestRequest,
         fastestRequest |-> st.fastestRequest,
         statusCodes |-> st.statusCodes]
getStatistics == getStatisticsOf(logs)

InterceptorNext ==
    \/ enable
    \/ disable
    \/ clear
    \/ Tick
    \/ logRequest
    \/ \E t \in 0..(nextId - 1), r \in Responses : logResponse(t, r)
    \/ \E p \in pending : logResponseResume(p)
    \/ \E t \in 0..(nextId - 1), m \in ErrorTexts : logError(t, m)

SpecInterceptor == InterceptorInit /\ [][InterceptorNext]_vars

\* the two places that measure a duration, side by side
DurationsInit == InterceptorInit \/ MeasureInit
DurationsNext == InterceptorNext \/ MeasureNext
SpecDurations == DurationsInit /\ [][DurationsNext]_vars

\* =================================================================
\* the apiTestWithLogging fixture
\* =================================================================

FixtureInit ==
    /\ BatchIdle /\ RetryIdle /\ PollIdle /\ ValidatorIdle /\ MeasureIdle
    /\ enabled = FALSE
    /\ logs = <<>>
    /\ startTimes = <<>>
    /\ clock = 1
    /\ nextId = 1
    /\ pending = {}
    /\ lastCall = NoCall
    /\ everEnabled = FALSE
    /\ issued = FALSE
    /\ icpc = "setup"

FixtureFrame == UNCHANGED <<batchVars, retryVars, pollVars, validatorVars, measureVars>>

\* The apiContext override up to `await use(context)`: a plain
\* playwright.request.newContext(...), then apiInterceptor.enable().
FixtureSetup ==
    /\ icpc = "setup"
    /\ icpc' = "live"
    /\ enabled' = TRUE
    /\ everEnabled' = TRUE
    /\ UNCHANGED <<logs, startTimes, clock, nextId, pending, lastCall, issued>>
    /\ FixtureFrame

\* The test sends a request through apiContext and gets its response.  The
\* context knows nothing of the interceptor: nothing is logged.
ApiContextRequest ==
    /\ icpc = "live"
    /\ ~issued
    /\ issued' = TRUE
    /\ UNCHANGED <<enabled, logs, startTimes, clock, nextId, pending, lastCall,
                   everEnabled, icpc>>
    /\ FixtureFrame

\* After the test: apiInterceptor.logSummary() (console output only), then
\* context.dispose().
FixtureTeardown ==
    /\ icpc = "live"
    /\ icpc' = "done"
    /\ UNCHANGED <<enabled, logs, startTimes, clock, nextId, pending, lastCall,
                   everEnabled, issued>>
    /\ FixtureFrame

\* During the test the interceptor is in the test's hands as well.
FixtureNext ==
    \/ FixtureSetup
    \/ ApiContextRequest
    \/ FixtureTeardown
    \/ InterceptorNext

SpecFixture == FixtureInit /\ [][FixtureNext]_vars

\* =================================================================
\* APIResponseValidator
\* =================================================================

\* JSON documents are objects with the properties a and b.  A schema requires
\* both and gives the type of each (as VALIDATION.schemas does); a body gives
\* each property's JSON literal, "undefined" for a property it lacks.
Fields == {"a", "b"}
Schemas == [a : {"number", "string"}, b : {"number", "string"}]
SchemaNames == {Undefined, [supplied |-> TRUE, text |-> ""],
                [supplied |-> TRUE, text |-> "products"]}
\* The text of a response body.  Two of the texts are the same JSON document.
RawTexts == {"{a:1,b:2}", "{ a:1, b:2 }", "{a:'1',b:2}", "{a:'1',b:'2'}", "{a:1}", "<html>"}
APIResponses == [status : ResponseStatuses, raw : RawTexts]

\* response.json(): whether the text parses, and the value it parses to
DecodeOk(raw) == raw # "<html>"
Decode(raw) ==
    CASE raw = "{a:1,b:2}"     -> [a |-> "1", b |-> "2"]
      [] raw = "{ a:1, b:2 }"  -> [a |-> "1", b |-> "2"]
      [] raw = "{a:'1',b:2}"   -> [a |-> "'1'", b |-> "2"]
      [] raw = "{a:'1',b:'2'}" -> [a |-> "'1'", b |-> "'2'"]
      [] raw = "{a:1}"         -> [a |-> "1", b |-> "undefined"]
      [] OTHER                 -> NoBody
TypeOf(literal) == IF literal \in {"1", "2"} THEN "number" ELSE "string"

\* JSON.stringify(schema)
Serialize(schema) == "{a:" \o schema.a \o ",b:" \o schema.b \o "}"

\* schemaName || JSON.stringify(schema): undefined and '' are both falsy
CacheKey(name, schema) ==
    IF name.supplied /\ name.text # "" THEN name.text ELSE Serialize(schema)

\* this.validators.get(key) found a validator (`if (!validate)` is skipped)
CacheHitNever(m, key) == FALSE
CacheHit(m, key) == MapHas(m, key)

\* validate(body) of a validator compiled from `schema`: a required property is
\* missing, or a property's value has the wrong type
Violations(schema, body) ==
    {[field |-> f, keyword |-> "required"] : f \in {g \in Fields : body[g] = "undefined"}}
    \cup
    {[field |-> f, keyword |-> "type"] :
        f \in {g \in Fields : body[g] # "undefined" /\ TypeOf(body[g]) # schema[g]}}

\* validate.errors with Ajv's allErrors: true: one error per violation (without
\* the option Ajv stops at the first)
AjvErrorsFirstOnly(viol) == IF viol = {} THEN {} ELSE {CHOOSE v \in viol : TRUE}
AjvErrors(viol) == viol

\* `${err.instancePath} ${err.message}` of one error: a type error sits at the
\* property's path, a missing property at the root, named in the message
ErrorLine(v, schema) ==
    IF v.keyword = "type"
    THEN "/" \o v.field \o " must be " \o schema[v.field]
    ELSE " must have required property '" \o v.field \o "'"

\* expect(response1.status()).toBe(response2.status())
StatusToBeAny(s1, s2) == TRUE
StatusToBe(s1, s2) == s1 = s2

\* expect(body1).toEqual(body2)
ToEqual(b1, b2) == b1 = b2

ValidatorInit ==
    /\ BatchIdle /\ RetryIdle /\ PollIdle /\ InterceptorIdle /\ MeasureIdle
    /\ validators = <<>>
    /\ compiled = <<>>
    /\ vcalls = 0
    /\ lastValidation = NoValidation
    /\ vpc = "live"

ValidatorFrame ==
    UNCHANGED <<batchVars, retryVars, pollVars, interceptorVars, measureVars, vpc>>

\* One validateSchema call.  Its only await is the first statement; what follows
\* runs without interruption, so calls do not interleave on the cache.
validateSchema(resp, schema, name) ==
    /\ vpc = "live"
    /\ vcalls < MaxValidations
    /\ vcalls' = vcalls + 1
    /\ IF ~DecodeOk(resp.raw)
       THEN /\ lastValidation' = [NoValidation EXCEPT !.op = "validateSchema",
                                     !.kind = "syntax error", !.name = name,
                                     !.schema = schema, !.r1 = resp]
            /\ UNCHANGED <<validators, compiled>>
       ELSE LET body == Decode(resp.raw)
                key == CacheKey(name, schema)
                hit == CacheHit(validators, key)
                validate == IF hit THEN validators[key] ELSE schema
                errs == AjvErrors(Violations(validate, body))
            IN  /\ validators' = IF hit THEN validators ELSE MapSet(validators, key, schema)
                /\ compiled' = IF hit THEN compiled
                               ELSE Append(compiled, [key |-> key, schema |-> schema])
                /\ lastValidation' =
                      [op |-> "validateSchema",
                       kind |-> IF errs = {} THEN "returned" ELSE "threw",
                       name |-> name, schema |-> schema, key |-> key, used |-> validate,
                       r1 |-> resp, r2 |-> NoAPIResponse,
                       body |-> IF errs = {} THEN body ELSE NoBody,
                       errors |-> {ErrorLine(v, validate) : v \in errs}]
    /\ ValidatorFrame

\* One validateIdempotency call: the status assertion, the two decodings, the
\* body assertion; the first failure rejects the call.
validateIdempotency(resp1, resp2) ==
    /\ vpc = "live"
    /\ vcalls < MaxValidations
    /\ vcalls' = vcalls + 1
    /\ lastValidation' =
          [NoValidation EXCEPT
              !.op = "validateIdempotency", !.r1 = resp1, !.r2 = resp2,
              !.kind = IF ~StatusToBe(resp1.status, resp2.status) THEN "failed"
                       ELSE IF ~DecodeOk(resp1.raw) \/ ~DecodeOk(resp2.raw)
                            THEN "syntax error"
                       ELSE IF ToEqual(Decode(resp1.raw), Decode(resp2.raw))
                            THEN "passed"
                       ELSE "failed"]
    /\ UNCHANGED <<validators, compiled>>
    /\ ValidatorFrame

ValidatorNext ==
    \/ \E raw \in RawTexts, sc \in Schemas, n \in SchemaNames :
          validateSchema([status |-> 200, raw |-> raw], sc, n)
    \/ \E r1 \in APIResponses, r2 \in APIResponses : validateIdempotency(r1, r2)

SpecValidator == ValidatorInit /\ [][ValidatorNext]_vars

\* =================================================================
\* all helpers
\* =================================================================
Init ==
    \/ BatchInit \/ RetryInit \/ PollInit \/ InterceptorInit \/ FixtureInit
    \/ ValidatorInit \/ MeasureInit
Next ==
    \/ BatchNext \/ RetryNext \/ PollNext \/ FixtureNext
    \/ ValidatorNext \/ MeasureNext
Spec == Init /\ [][Next]_vars

\* =================================================================
\* Properties
\* =================================================================

Running == {i \in 1..numRequests : opState[i] = "running"}
LastCall == calls[Len(calls)]
Retriable(o) == o.kind = "response" /\ o.status \in retryOn
LastDur == IF polls = <<>> THEN 0 ELSE polls[Len(polls)].dur

\* ---- C1 ----
\* C1: at every moment of batchRequests(requests, C), the number of operations
\* started and not yet resolved is at most C.
C1_AtMostCUnresolved == Cardinality(Running) <= concurrency

\* ---- C2 ----
\* C2: when no operation fails, at the moment batchRequests resolves the result
\* array holds one result per input operation and no started operation is still
\* unresolved.
C2_ResolvesWithAllResults ==
    (batchOutcome.kind = "resolved" /\ \A i \in 1..numRequests : fate[i] = "ok")
        => (batchOutcome.len = numRequests /\ Running = {})

\* ---- C3 ----
\* C3: if any operation rejects, batchRequests rejects; it never resolves
\* successfully while an operation's failure is dropped.
C3_RejectionPropagates ==
    (bpc = "done" /\ \E i \in 1..numRequests : opState[i] = "rejected")
        => batchOutcome.kind = "rejected"

\* ---- C4 ----
\* C4: one call of retryRequest invokes the operation at most maxRetries + 1
\* times, whatever the operation does.
C4_AtMostNPlus1Attempts == Len(calls) <= maxRetries + 1

C4_Witness ==
    /\ rpc = "done" /\ maxRetries >= 2 /\ Len(calls) = maxRetries + 1
    /\ \E k \in 1..Len(calls) : calls[k].kind = "error"
    /\ \E k \in 1..Len(calls) : Retriable(calls[k])

\* ---- C5 ----
\* C5: the wait between attempt k and attempt k+1 (0-indexed) is exactly
\* retryDelay * 2^k, after a thrown error as after a retriable status; every
\* attempt that is followed by another one is followed by exactly one wait.
C5_BackoffDoubles ==
    /\ \A k \in 1..Len(waits) : waits[k] = retryDelay * (2 ^ (k - 1))
    /\ rpc \in {"call", "sleep"} => Len(waits) = Len(calls)
    /\ Len(waits) \in {Len(calls) - 1, Len(calls)} \/ calls = <<>>

C5_Witness ==
    /\ retryDelay = 2 /\ Len(waits) = 3
    /\ calls[1].kind = "error" /\ Retriable(calls[2])
    /\ waits = <<2, 4, 8>>

\* ---- C6 ----
\* C6: if the first j calls return a retriable status and call j+1 returns a
\* non-retriable one (0 <= j <= maxRetries), retryRequest returns that response
\* after exactly j+1 invocations and j waits.
C6_ReturnsFirstNonRetriable ==
    \A j \in 0..maxRetries :
        ( /\ Len(calls) >= j + 1
          /\ \A k \in 1..j : Retriable(calls[k])
          /\ calls[j + 1].kind = "response" /\ calls[j + 1].status \notin retryOn )
        => ( /\ rpc = "done"
             /\ retryOutcome = [kind |-> "return", id |-> j + 1,
                                status |-> calls[j + 1].status]
             /\ Len(calls) = j + 1
             /\ Len(waits) = j )

C6_Witness ==
    /\ rpc = "done" /\ maxRetries = 3 /\ Len(calls) = 3
    /\ Retriable(calls[1]) /\ Retriable(calls[2])
    /\ calls[3].kind = "response" /\ calls[3].status = 200
    /\ retryOutcome.kind = "return" /\ retryOutcome.id = 3

\* ---- C7 ----
\* C7: once all maxRetries + 1 attempts are used up the caller gets the outcome
\* of the final attempt (its response, retriable or not, or its error), never
\* that of an earlier attempt; and no failure is surfaced before exhaustion.
C7_FinalAttemptSurfaced ==
    /\ (rpc = "done" /\ Len(calls) = maxRetries + 1) =>
          IF LastCall.kind = "response"
          THEN retryOutcome = [kind |-> "return", id |-> Len(calls),
                               status |-> LastCall.status]
          ELSE retryOutcome = [kind |-> "throw", id |-> Len(calls), status |-> 0]
    /\ retryOutcome.kind = "throw" =>
          Len(calls) = maxRetries + 1 /\ LastCall.kind = "error"
    /\ rpc # "done" => retryOutcome.kind = "none"

C7_Witness ==
    /\ rpc = "done" /\ maxRetries >= 2 /\ Len(calls) = maxRetries + 1
    /\ calls[1].kind = "error" /\ Retriable(calls[2]) /\ LastCall.kind = "error"
    /\ retryOutcome.kind = "throw" /\ retryOutcome.id = Len(calls)

\* ---- C8 ----
\* C8: pollUntil only returns a response whose predicate evaluated to true, and
\* it is that of the first poll whose predicate held.
C8_ReturnsFirstSatisfying ==
    pollOutcome.kind = "return" =>
        /\ pollOutcome.id = Len(polls)
        /\ polls[pollOutcome.id].cond
        /\ \A k \in 1..(pollOutcome.id - 1) : ~polls[k].cond

C8_Witness ==
    /\ pollOutcome.kind = "return" /\ pollOutcome.id = 3
    /\ ~polls[1].cond /\ ~polls[2].cond /\ polls[3].cond

\* ---- C9 ----
\* C9 as stated: when the predicate never holds, the timeout failure is raised
\* no later than timeout + interval after the call started.
C9_WithinTimeoutPlusInterval ==
    pollOutcome.kind = "timeout" => now <= timeout + interval

\* C9 amended: every poll starts before timeout has elapsed, and the timeout
\* failure is raised less than interval + (duration of the last poll) after the
\* timeout, i.e. before timeout + interval + duration of the last poll.
C9_WithinTimeoutPlusIntervalPlusPoll ==
    /\ \A k \in 1..Len(polls) : polls[k].start < timeout
    /\ pollOutcome.kind = "timeout" => now < timeout + interval + LastDur

C9_Witness ==
    /\ pollOutcome.kind = "timeout" /\ Len(polls) >= 2
    /\ now > timeout + interval

\* ---- C10 ----
\* C10 as stated: when the timeout elapses before the predicate succeeds,
\* pollUntil returns no response but fails with an error whose message is the
\* caller-supplied errorMessage, or the default naming the timeout when none is
\* supplied.
C10_TimeoutErrorCarriesMessage ==
    (/\ ppc = "done" /\ pollOutcome.kind # "throw"
     /\ (pollOutcome.kind = "timeout" \/ now > timeout)) =>
        /\ pollOutcome.kind = "timeout"
        /\ pollOutcome.message =
              IF errorMessage.supplied THEN errorMessage.text
              ELSE DefaultMessage(timeout)

\* C10 amended: pollUntil raises the timeout failure exactly when a deadline
\* check finds the timeout elapsed with no poll satisfied (a poll's own error is
\* passed on as it is); the message is errorMessage when it is a
\* non-empty string, the default otherwise.  A poll that started before the
\* deadline and satisfies the predicate is returned, however late it completes.
C10_TimeoutAtDeadlineCheck ==
    /\ pollOutcome.kind = "timeout" =>
          /\ now >= timeout
          /\ \A k \in 1..Len(polls) : ~polls[k].cond
          /\ errorMessage = Undefined => pollOutcome.message = DefaultMessage(timeout)
          /\ errorMessage.text = "" => pollOutcome.message = DefaultMessage(timeout)
          /\ errorMessage.text # "" => pollOutcome.message = errorMessage.text
    /\ pollOutcome.kind = "return" => polls[Len(polls)].start < timeout
    /\ ppc = "done" <=> pollOutcome.kind \in {"timeout", "return", "throw"}

C10_Witness ==
    /\ pollOutcome.kind = "timeout" /\ Len(polls) >= 1
    /\ errorMessage.text = "order still pending"
    /\ pollOutcome.message = "order still pending"

\* -----------------------------------------------------------------
\* APIInterceptor
\* -----------------------------------------------------------------

\* C11 as stated: while the interceptor is disabled, getLogs() returns an empty
\* sequence, whatever logRequest / logResponse / logError calls were made.
C11_DisabledLogsEmpty == ~enabled => getLogs = <<>>

\* C11 amended: log calls on an interceptor that has never been enabled record
\* nothing, so its getLogs() is empty; entries captured before a disable() stay.
C11_NeverEnabledLogsEmpty == ~everEnabled => getLogs = <<>>

C11_Witness ==
    /\ ~everEnabled
    /\ lastCall = [op |-> "logRequest", token |-> 0]
    /\ getLogs = <<>>

\* C12: while enabled, no log entry ever carries both a response and an error,
\* under every interleaving of the log calls of different requests.
C12_NeverBothResponseAndError ==
    \A k \in 1..Len(logs) : ~(HasResponse(logs[k]) /\ HasError(logs[k]))

\* C13: once the response field or the error field of an entry is set, no later
\* step changes it for as long as the entry is in the log.
C13_WrittenAtMostOnce ==
    [][\A k \in 1..Len(logs) :
          (k <= Len(logs') /\ logs'[k].eid = logs[k].eid) =>
              /\ HasResponse(logs[k]) => logs'[k].response = logs[k].response
              /\ HasError(logs[k]) => logs'[k].error = logs[k].error]_vars

\* -----------------------------------------------------------------
\* APIResponseValidator
\* -----------------------------------------------------------------

SchemaChecked ==
    lastValidation.op = "validateSchema" /\ lastValidation.kind \in {"returned", "threw"}
\* the schema of the first ajv.compile call made under a cache key
FirstCompiled(key) ==
    compiled[CHOOSE i \in 1..Len(compiled) :
                /\ compiled[i].key = key
                /\ \A j \in 1..(i - 1) : compiled[j].key # key].schema
\* the message lines that reference the violated fields
Lines(viol, schema) == {ErrorLine(v, schema) : v \in viol}

\* C14: a schema is compiled at most once per cache key (the schemaName when one
\* is given, otherwise the serialized schema); the cache keeps the validator
\* first compiled under each key, and every validateSchema call uses the one
\* first compiled under its key, whatever schema it was passed.
C14_CompiledOncePerKey ==
    /\ \A i, j \in 1..Len(compiled) : compiled[i].key = compiled[j].key => i = j
    /\ DOMAIN validators = {compiled[i].key : i \in 1..Len(compiled)}
    /\ \A k \in DOMAIN validators : validators[k] = FirstCompiled(k)
    /\ SchemaChecked =>
          /\ lastValidation.key =
                IF lastValidation.name \notin {Undefined, [supplied |-> TRUE, text |-> ""]}
                THEN lastValidation.name.text
                ELSE Serialize(lastValidation.schema)
          /\ lastValidation.key \in DOMAIN validators
          /\ lastValidation.used = FirstCompiled(lastValidation.key)

C14_Witness ==
    /\ SchemaChecked
    /\ vcalls >= 2
    /\ Len(compiled) = 1
    /\ lastValidation.name.text = "products"
    /\ lastValidation.used # lastValidation.schema

\* C15 as stated: validateSchema returns the decoded body unchanged when the
\* schema it was passed accepts the body, and otherwise raises an error whose
\* message references the path of every violated field.
C15_ReturnsIffSchemaAccepts ==
    (lastValidation.op = "validateSchema" /\ DecodeOk(lastValidation.r1.raw)) =>
        LET body == Decode(lastValidation.r1.raw)
            viol == Violations(lastValidation.schema, body)
        IN  /\ viol = {} => lastValidation.kind = "returned" /\ lastValidation.body = body
            /\ viol # {} => /\ lastValidation.kind = "threw"
                            /\ Lines(viol, lastValidation.schema) \subseteq
                                  lastValidation.errors

\* C15 amended: the schema that decides is the one first compiled under the
\* call's cache key, which is the schema passed unless another schema was
\* validated earlier under the same schemaName.
C15_ReturnsIffCachedSchemaAccepts ==
    (lastValidation.op = "validateSchema" /\ DecodeOk(lastValidation.r1.raw)) =>
        LET body == Decode(lastValidation.r1.raw)
            first == FirstCompiled(lastValidation.key)
            viol == Violations(first, body)
        IN  /\ viol = {} => lastValidation.kind = "returned" /\ lastValidation.body = body
            /\ viol # {} => /\ lastValidation.kind = "threw"
                            /\ Lines(viol, first) \subseteq lastValidation.errors

C15_Witness ==
    /\ lastValidation.kind = "threw"
    /\ lastValidation.errors = {"/a must be string", " must have required property 'b'"}

\* C16: validateIdempotency passes exactly when the two statuses are equal and
\* the two decoded bodies are deeply equal.
C16_PassesIffSameStatusAndBody ==
    lastValidation.op = "validateIdempotency" =>
        (lastValidation.kind = "passed" <=>
            /\ lastValidation.r1.status = lastValidation.r2.status
            /\ DecodeOk(lastValidation.r1.raw) /\ DecodeOk(lastValidation.r2.raw)
            /\ Decode(lastValidation.r1.raw) = Decode(lastValidation.r2.raw))

C16_Witness ==
    /\ lastValidation.op = "validateIdempotency"
    /\ lastValidation.kind = "passed"
    /\ lastValidation.r1.raw # lastValidation.r2.raw

\* -----------------------------------------------------------------
\* APIInterceptor statistics, fixture, decoding
\* -----------------------------------------------------------------

Responded(s) == {k \in 1..Len(logs) : HasResponse(logs[k]) /\ logs[k].response.status = s}
ErrorOnly == {k \in 1..Len(logs) : ~HasResponse(logs[k]) /\ HasError(logs[k])}

\* C17: getStatistics().statusCodes[s] is the number of entries whose response
\* has status s (no key for a status no response has), and failedRequests
\* counts every entry whose response status is outside 200..399, besides the
\* entries that have an error and no response.
C17_StatusCodesCountResponses ==
    LET stats == getStatistics
        outside == {s \in ResponseStatuses : ~(200 <= s /\ s <= 399)}
    IN  /\ DOMAIN stats.statusCodes = {s \in ResponseStatuses : Responded(s) # {}}
        /\ \A s \in DOMAIN stats.statusCodes :
              stats.statusCodes[s] = Cardinality(Responded(s))
        /\ stats.failedRequests =
              Cardinality(UNION {Responded(s) : s \in outside}) + Cardinality(ErrorOnly)

C17_Witness ==
    /\ Len(logs) = 1
    /\ logs[1].response.status = 404
    /\ getStatistics.statusCodes[404] = 1
    /\ getStatistics.failedRequests = 1

\* C18: in a test using the apiTestWithLogging fixture, once a request sent
\* through apiContext has completed, getLogs() has an entry for it although the
\* test made no logRequest / logResponse call itself.
C18_RequestsAutoLogged ==
    (issued /\ lastCall = NoCall /\ nextId = 1 /\ pending = {}) => getLogs # <<>>

\* C19: no logResponse call throws, and a suspended logResponse whose body
\* cannot be decoded still gives the entry it found a response record with the
\* response's status, the measured duration and the placeholder as body.
C19_DecodeFailureRecorded ==
    [][/\ lastCall'.op # "logResponse threw"
       /\ \A p \in pending :
             (p \notin pending' /\ ~p.resp.decodeOk) =>
                 \A k \in 1..Len(logs) :
                     logs[k].eid = p.eid =>
                         /\ k <= Len(logs')
                         /\ logs'[k].response =
                               [status |-> p.resp.status, body |-> Placeholder,
                                duration |-> p.duration]]_vars

C19_Witness ==
    \E k \in 1..Len(logs) :
        /\ logs[k].response.body = Placeholder
        /\ logs[k].response.status = 404

\* -----------------------------------------------------------------
\* retryRequest without retries
\* -----------------------------------------------------------------

\* C20: with maxRetries = 0 retryRequest invokes the operation exactly once and
\* never waits; the call's response is returned whatever its status, a thrown
\* error is raised again.
C20_ZeroRetriesOneAttempt ==
    maxRetries = 0 =>
        /\ waits = <<>> /\ rpc # "sleep"
        /\ Len(calls) <= 1
        /\ rpc = "done" <=> Len(calls) = 1
        /\ Len(calls) = 1 =>
              retryOutcome =
                 IF calls[1].kind = "response"
                 THEN [kind |-> "return", id |-> 1, status |-> calls[1].status]
                 ELSE [kind |-> "throw", id |-> 1, status |-> 0]

C20_Witness ==
    /\ maxRetries = 0 /\ rpc = "done"
    /\ Retriable(calls[1])
    /\ retryOutcome = [kind |-> "return", id |-> 1, status |-> 503]

\* -----------------------------------------------------------------
\* retryRequest and pollUntil: order of the attempts
\* -----------------------------------------------------------------

\* C21: within one retryRequest or pollUntil call the attempts are strictly
\* sequential.  An invocation starts only when the loop is at its call (not
\* suspended in a sleep), every earlier retry attempt has settled and has been
\* followed by a wait, and a poll starts no earlier than the end of the
\* previous poll plus the interval.
C21_AttemptsSequential ==
    [][/\ calls' # calls =>
             /\ rpc = "call"
             /\ Len(calls') = Len(calls) + 1
             /\ Len(waits) = Len(calls)
       /\ polls' # polls =>
             /\ ppc = "check"
             /\ Len(polls') = Len(polls) + 1
             /\ polls # <<>> =>
                   polls'[Len(polls')].start >=
                      polls[Len(polls)].start + polls[Len(polls)].dur + interval]_vars

C21_Witness ==
    /\ Len(polls) = 2
    /\ polls[1].dur = 2
    /\ polls[2].start = polls[1].start + polls[1].dur + interval

\* C22: the deadline is measured from the start of the call and checked before
\* every poll: no poll begins once timeout ms have elapsed; with timeout = 0
\* the operation is never invoked and the timeout failure is raised at once.
C22_NoPollAfterDeadline ==
    /\ \A k \in 1..Len(polls) : polls[k].start < timeout
    /\ ppc = "sleep" => polls # <<>>
    /\ timeout = 0 =>
          /\ polls = <<>>
          /\ now = 0
          /\ ppc = "done" => pollOutcome.kind = "timeout"

C22_Witness ==
    /\ timeout = 0 /\ ppc = "done"
    /\ polls = <<>> /\ now = 0
    /\ pollOutcome.kind = "timeout"

\* C30: pollUntil does not retry failures.  A poll in which the operation or
\* the predicate throws is the last poll: pollUntil fails with that error at
\* the moment the poll ends, without a further invocation or wait.
C30_PollErrorPropagates ==
    /\ \A k \in 1..Len(polls) :
          polls[k].threw # "none" =>
              /\ k = Len(polls)
              /\ ppc = "done"
              /\ pollOutcome = [kind |-> "throw", id |-> k,
                                message |-> ThrownMessage(polls[k].threw)]
              /\ now = polls[k].start + polls[k].dur
    /\ pollOutcome.kind = "throw" => polls[Len(polls)].threw # "none"

C30_Witness ==
    /\ Len(polls) = 2
    /\ polls[2].threw = "conditionFn"
    /\ pollOutcome = [kind |-> "throw", id |-> 2, message |-> "conditionFn failed"]
    /\ now < timeout

\* -----------------------------------------------------------------
\* APIInterceptor: which entry a call touches
\* -----------------------------------------------------------------

\* the eids of the entries of a log
Eids(ls) == {ls[k].eid : k \in 1..Len(ls)}

\* C23: a logResponse call works on the entry created by the logRequest call
\* that returned its token (the entry whose number is the token's) and on no
\* other, for every token, known, unknown or already resolved.
C23_TouchesOwnEntryOnly == \A p \in pending : p.eid = p.token

\* C24: a logRequest, logResponse or logError call made while the interceptor
\* is disabled leaves the log, its entries and the pending-request map as they
\* are, and logRequest returns the empty token.
C24_DisabledCallsAreNoOps ==
    [][(/\ ~enabled
        /\ \/ logRequest
           \/ \E t \in 0..(nextId - 1), r \in Responses : logResponse(t, r)
           \/ \E t \in 0..(nextId - 1), m \in ErrorTexts : logError(t, m))
       => /\ logs' = logs
          /\ startTimes' = startTimes
          /\ pending' = pending
          /\ logRequest => lastCall' = [op |-> "logRequest", token |-> 0]]_vars

C24_Witness ==
    /\ ~enabled
    /\ logs # <<>> /\ startTimes # <<>>
    /\ lastCall = [op |-> "logRequest", token |-> 0]

\* a token whose entry is gone: issued by a logRequest before the last clear()
IssuedBeforeClear(t, ls) == t >= 1 /\ t \notin Eids(ls)

\* C25: entries only accumulate, in logRequest call order, until clear();
\* clear() empties the log and the pending-request map and keeps the enabled
\* flag; a logResponse for a token issued before the clear() works on no entry
\* of the new log, and a logError for such a token changes none.
C25_AccumulateUntilClear ==
    [][/\ clear => logs' = <<>> /\ startTimes' = <<>> /\ enabled' = enabled
       /\ ~clear =>
             /\ Len(logs') >= Len(logs)
             /\ \A k \in 1..Len(logs) : logs'[k].eid = logs[k].eid
             /\ \A k \in (Len(logs) + 1)..Len(logs') :
                   \A j \in 1..(k - 1) : logs'[j].eid < logs'[k].eid
       /\ \A p \in pending' :
             IssuedBeforeClear(p.token, logs') => p.eid \notin Eids(logs')
       /\ \A t \in 1..(nextId - 1), m \in ErrorTexts :
             (IssuedBeforeClear(t, logs) /\ logError(t, m)) => logs' = logs]_vars

\* -----------------------------------------------------------------
\* durations
\* -----------------------------------------------------------------

\* C26: with a clock that never goes backwards, every duration the interceptor
\* records or is about to record (whatever the token of the call) and every
\* duration measureResponseTime returns is >= 0.
C26_DurationsNonNegative ==
    /\ \A k \in 1..Len(logs) : HasResponse(logs[k]) => logs[k].response.duration >= 0
    /\ \A p \in pending : p.duration >= 0
    /\ measured.kind = "return" => measured.duration >= 0

C26_Witness ==
    \E k \in 1..Len(logs) : HasResponse(logs[k]) /\ logs[k].response.duration = 1

\* -----------------------------------------------------------------
\* batchRequests with concurrency 1
\* -----------------------------------------------------------------

\* C27: with concurrency 1 the operations run strictly one after another:
\* operation i+1 is started only after operation i has resolved, the results
\* are in input order, and batchRequests resolves only after the last
\* operation has resolved, with all the results.
C27_SequentialAtConcurrencyOne ==
    concurrency = 1 =>
        /\ Cardinality(Running) <= 1
        /\ \A i \in 2..numRequests :
              opState[i] # "pending" => opState[i - 1] = "fulfilled"
        /\ results = [k \in 1..Len(results) |-> k]
        /\ batchOutcome.kind = "resolved" =>
              /\ \A i \in 1..numRequests : opState[i] = "fulfilled"
              /\ Len(results) = numRequests
              /\ batchOutcome.len = numRequests

C27_Witness ==
    /\ concurrency = 1 /\ numRequests = 3
    /\ batchOutcome.kind = "resolved"
    /\ results = <<1, 2, 3>>

\* -----------------------------------------------------------------
\* APIInterceptor statistics: average, slowest, fastest
\* -----------------------------------------------------------------

RespondedEntries == {k \in 1..Len(logs) : HasResponse(logs[k])}
RECURSIVE SumOfDurations(_)
SumOfDurations(ks) ==
    IF ks = {} THEN 0
    ELSE LET k == CHOOSE x \in ks : TRUE
         IN  logs[k].response.duration + SumOfDurations(ks \ {k})
\* the duration of the entry a statistics field points at
DurationOf(eid) ==
    logs[CHOOSE k \in 1..Len(logs) : logs[k].eid = eid].response.duration

\* C28: averageResponseTime is the arithmetic mean of the durations of the
\* entries that have a response (0 when there is none); pending entries and
\* entries ended by logError do not enter it.
C28_AverageOverResponded ==
    LET avg == getStatistics.averageResponseTime
        n == Cardinality(RespondedEntries)
    IN  IF n = 0
        THEN avg.num = 0
        ELSE avg.num * n = SumOfDurations(RespondedEntries) * avg.den

\* C29: whenever an entry has a response, slowestRequest and fastestRequest
\* are both non-null, the first with the largest and the second with the
\* smallest duration among the responded entries.
C29_SlowestAndFastestSet ==
    RespondedEntries # {} =>
        LET stats == getStatistics
        IN  /\ stats.slowestRequest # 0
            /\ stats.fastestRequest # 0
            /\ \A k \in RespondedEntries :
                  /\ logs[k].response.duration <= DurationOf(stats.slowestRequest)
                  /\ logs[k].response.duration >= DurationOf(stats.fastestRequest)

====
